---- MODULE Spec2Model ----
(***************************************************************************)
(* Model of asoranking.py: the ISP ranking pipeline (ASORanking).          *)
(*                                                                         *)
(* Datasets (pandas data frames) are sequences of records.  A value that   *)
(* may be missing (NaN) is the empty sequence, a present value v is <<v>>. *)
(* Medians may fall on a half (mean of the two middle values), so every    *)
(* median, and the CPU band derived from one, is held in half-units:       *)
(* twice its value.  Field and variable names follow the source.           *)
(*                                                                         *)
(* Benchmark scores are whole numbers.  Every timing row carries a TTFB    *)
(* and a PLT; only the transfer size may be missing.  The device_family    *)
(* column, which nothing reads, is left out.  The data warehouse and the   *)
(* GeoIP database are the environment: what a query returns is chosen      *)
(* from small sets, and the WHERE clause of the benchmark query is applied *)
(* to the chosen join as the SQL text states it.                           *)
(***************************************************************************)
EXTENDS Integers, Sequences, FiniteSets, TLC

\* ------------------------------------------------------------- bounds
MaxCountries == 2      \* length of --countries
MaxScore == 5          \* benchmark scores range over 1..MaxScore
MaxBandRows == 2       \* benchmark join rows, band cases
MaxFilterRows == 2     \* timing rows, filter cases
MaxOrderRows == 3      \* timing rows, ordering cases
MaxTransferRows == 3   \* timing rows, transfer size cases

\* ------------------------------------------------------------- values
NaN == << >>

\* SQL NULL in a string column (type, mobilemode)
Null == "null"

CountryCodes == {"US", "DE", "ZZ"}

\* ASORanking.country_names, two of its twelve entries; "ZZ" is a code
\* that is not a key of the table.
country_names == [US |-> "United States", DE |-> "Germany"]

networks == <<"cellular", "wifi">>

tsv_header == [kind |-> "header"]

\* The GeoIP2 ISP database: ip1 and ip2 are two ASNs of organization "A",
\* ip3 belongs to "B", and ipX is an address the database does not hold.
IspDb ==
    [ip1 |-> [asn |-> 1, aso |-> "A"],
     ip2 |-> [asn |-> 2, aso |-> "A"],
     ip3 |-> [asn |-> 3, aso |-> "B"]]

\* ------------------------------------------------------------- helpers
Range(s) == {s[i] : i \in 1..Len(s)}

Column(ds, f) == [i \in 1..Len(ds) |-> ds[i][f]]

\* The values of a column that are present (pandas skips NaN in median()).
Present(col) ==
    LET kept == SelectSeq(col, LAMBDA v : v # NaN)
    IN  [i \in 1..Len(kept) |-> kept[i][1]]

RECURSIVE Insert(_, _)
Insert(sorted, v) ==
    IF sorted = << >> THEN <<v>>
    ELSE IF v <= Head(sorted) THEN <<v>> \o sorted
    ELSE <<Head(sorted)>> \o Insert(Tail(sorted), v)

RECURSIVE Sort(_)
Sort(vals) ==
    IF vals = << >> THEN << >> ELSE Insert(Sort(Tail(vals)), Head(vals))

\* pandas median of a non-empty list of numbers, in half-units.
Median2(vals) ==
    LET s == Sort(vals)
        n == Len(s)
    IN  IF n % 2 = 1 THEN 2 * s[(n + 1) \div 2]
        ELSE s[n \div 2] + s[n \div 2 + 1]

\* int(x) and the %d conversion of a float given in half-units: truncation
\* toward zero.
IntTrunc2(h) == IF h >= 0 THEN h \div 2 ELSE -((-h) \div 2)

\* ------------------------------------------------------------- add_isp
add_isp_row(row) ==
    IF row.ip \in DOMAIN IspDb
    THEN row @@ [asn |-> IspDb[row.ip].asn, aso |-> IspDb[row.ip].aso]
    ELSE row @@ [asn |-> 0, aso |-> ""]

add_isp(dataset) == [i \in 1..Len(dataset) |-> add_isp_row(dataset[i])]

\* DataFrame.drop_duplicates(['pageviewtoken'], keep='first')
RECURSIVE drop_duplicates(_)
drop_duplicates(ds) ==
    IF ds = << >> THEN << >>
    ELSE LET init == drop_duplicates(SubSeq(ds, 1, Len(ds) - 1))
             last == ds[Len(ds)]
         IN  IF \E i \in 1..Len(init) : init[i].pageviewtoken = last.pageviewtoken
             THEN init
             ELSE Append(init, last)

\* fetch_navigationtiming_data, after the query returned `rows`.
process_navtiming(rows) == add_isp(drop_duplicates(rows))

\* ------------------------------------------------------------- CPU band
\* mincpu and maxcpu of generate_ranking, in half-units.
MinCpu(mediancpu, cpu_span) == mediancpu - cpu_span
MaxCpu(mediancpu, cpu_span) == mediancpu + cpu_span

\* The WHERE clause of the benchmark query: the bounds are written into the
\* SQL text with %d.
ScoreInQuery(score, mincpu, maxcpu) ==
    score > IntTrunc2(mincpu) /\ score < IntTrunc2(maxcpu)

\* The rows the benchmark query returns from the join of NavigationTiming
\* and CpuBenchmark for the country.
cpu_query(join, mincpu, maxcpu) ==
    SelectSeq(join, LAMBDA r : ScoreInQuery(r.score, mincpu, maxcpu))

cpu_dataset_of(join, mincpu, maxcpu) ==
    add_isp(drop_duplicates(cpu_query(join, mincpu, maxcpu)))

\* navtiming_dataset_filtered of fetch_and_combine_cpubenchmark
navtiming_with_benchmark(nav, cpu) ==
    SelectSeq(nav, LAMBDA r :
        \E i \in 1..Len(cpu) : cpu[i].pageviewtoken = r.pageviewtoken)

\* ------------------------------------------------------------- filters
get_asns_by_type(nav, network) ==
    IF network = "cellular"
    THEN {nav[i].asn : i \in {j \in 1..Len(nav) : nav[j].type = "cellular"}}
    ELSE {nav[i].asn : i \in {j \in 1..Len(nav) : nav[j].type = "wifi"}}

whitelist_filter(nav, whitelisted_asns) ==
    SelectSeq(nav, LAMBDA r : r.asn \in whitelisted_asns)

\* Faulty variant: the wifi filter drops only the stable mobile site.
mobilemode_filter_stable_only(nav, network) ==
    IF network = "cellular"
    THEN SelectSeq(nav, LAMBDA r : r.mobilemode = "stable")
    ELSE SelectSeq(nav, LAMBDA r : r.mobilemode # "stable")

mobilemode_filter(nav, network) ==
    IF network = "cellular"
    THEN SelectSeq(nav, LAMBDA r : r.mobilemode = "stable")
    ELSE SelectSeq(nav, LAMBDA r : r.mobilemode \notin {"stable", "alpha", "beta"})

\* The timing rows generate_ranking aggregates (navtiming_dataset after the
\* two filters).  The CPU-filtered dataset is not what is filtered here.
aggregated_rows(nav, nav_filtered, network) ==
    mobilemode_filter(whitelist_filter(nav, get_asns_by_type(nav, network)), network)

\* ------------------------------------------------------------- aggregation
RowsOf(ds, aso) == SelectSeq(ds, LAMBDA r : r.aso = aso)

Asos(ds) == {ds[i].aso : i \in 1..Len(ds)}

median_ttfb(rows, aso) == Median2(Column(RowsOf(rows, aso), "ttfb"))

median_plt(rows, aso) == Median2(Column(RowsOf(rows, aso), "plt"))

\* Faulty variant: a missing transfer size counts as 0 in the median.
group_median_transfersize_fillna(rows, aso) ==
    LET col == Column(SelectSeq(rows, LAMBDA r : r.aso = aso), "transfersize")
    IN  <<Median2([i \in 1..Len(col) |-> IF col[i] = NaN THEN 0 ELSE col[i][1]])>>

\* groupby(aso)[['transfersize']].median(): NaN when no row has a value
group_median_transfersize(rows, aso) ==
    LET vals == Present(Column(RowsOf(rows, aso), "transfersize"))
    IN  IF vals = << >> THEN NaN ELSE <<Median2(vals)>>

median_transfersize(rows, aso) ==
    LET median == group_median_transfersize(rows, aso)
    IN  IF median = NaN THEN 0 ELSE median[1]

median_cpu_score(cpu, aso) ==
    IF RowsOf(cpu, aso) = << >> THEN 0
    ELSE Median2(Column(RowsOf(cpu, aso), "score"))

\* just_this_aso_cpubenchmark.shape[0]
sample_size(rows, cpu, aso) == Len(RowsOf(cpu, aso))

\* Faulty variant: the threshold is applied to the organization's timing rows.
passes_threshold_on_timing_rows(rows, cpu, aso, threshold) ==
    ~(Len(SelectSeq(rows, LAMBDA r : r.aso = aso)) < threshold)

passes_threshold(rows, cpu, aso, threshold) ==
    ~(sample_size(rows, cpu, aso) < threshold)

\* Faulty variant: the medians are left in group order, unsorted.
unsorted_orders(rows) ==
    LET asos == {rows[i].aso : i \in 1..Len(rows)}
        n == Cardinality(asos)
    IN  {o \in [1..n -> asos] : \A i, j \in 1..n : i # j => o[i] # o[j]}

\* median_ttfb_by_aso.sort_values(by='ttfb'): the organizations in
\* ascending order of median TTFB.  The default sort is not stable, so the
\* order among equal medians is any.
sorted_orders(rows) ==
    LET asos == Asos(rows)
        n == Cardinality(asos)
    IN  {o \in [1..n -> asos] :
            /\ \A i, j \in 1..n : i # j => o[i] # o[j]
            /\ \A i \in 1..n : \A j \in 1..n :
                  i < j => median_ttfb(rows, o[i]) <= median_ttfb(rows, o[j])}

ranking_tuple(rows, cpu, aso) ==
    [aso |-> aso,
     ttfb |-> IntTrunc2(median_ttfb(rows, aso)),
     plt |-> IntTrunc2(median_plt(rows, aso)),
     cpu |-> IntTrunc2(median_cpu_score(cpu, aso)),
     transfersize |-> IntTrunc2(median_transfersize(rows, aso)),
     samples |-> sample_size(rows, cpu, aso)]

\* The loop of generate_ranking over one order of the organizations.
final_ranking(order, rows, cpu, threshold) ==
    LET kept == SelectSeq(order, LAMBDA aso : passes_threshold(rows, cpu, aso, threshold))
    IN  [i \in 1..Len(kept) |-> ranking_tuple(rows, cpu, kept[i])]

\* ------------------------------------------------------------- state
VARIABLES
    pc,                 \* position of generate_report
    args,               \* parsed command line
    cellular_medians,   \* country medians, cellular + mobile site
    wifi_medians,       \* country medians, wifi + desktop site
    ci,                 \* index of the country being processed
    ni,                 \* index of the network being processed
    navtiming_dataset,  \* timing dataset of the current country
    cpu_join,           \* warehouse: NavigationTiming joined to CpuBenchmark
                        \* for the current country, before the band filter
    call,               \* frame of the last generate_ranking call
    ranking,            \* ranking returned by the last call
    wi,                 \* index of the ranking tuple to write next
    file,               \* content of the period-named report file
    latest,             \* content of latest.tsv
    queries,            \* SQL statements run so far
    blocks              \* history: the ranking returned for each block

vars == <<pc, args, cellular_medians, wifi_medians, ci, ni, navtiming_dataset,
          cpu_join, call, ranking, wi, file, latest, queries, blocks>>

\* Content of latest.tsv and of the period-named file left by an earlier run.
PreviousLatest == <<[kind |-> "previous"]>>

\* Content of the period-named file before this run opens it.
PreviousReport == <<[kind |-> "stale"]>>

NoCall ==
    [outcome |-> "none", country |-> "", network |-> "", mincpu |-> 0, maxcpu |-> 0,
     cpu_dataset |-> << >>, cpubenchmark_dataset |-> << >>,
     navtiming_dataset_filtered |-> << >>,
     whitelisted_asns |-> {}, navtiming_dataset |-> << >>]

\* ------------------------------------------------------------- inputs
Seqs(S, n) == UNION {[1..k -> S] : k \in 0..n}

NavRow(ip, ttfb, plt, type, token, transfersize, mobilemode) ==
    [ip |-> ip, ttfb |-> ttfb, plt |-> plt, type |-> type, pageviewtoken |-> token,
     transfersize |-> transfersize, mobilemode |-> mobilemode]

JoinRow(ip, token, score) == [ip |-> ip, pageviewtoken |-> token, score |-> score]

MedianRows(countries, score) == {[country |-> c, score |-> score] : c \in countries}

\* Inputs of the report-level runs.
ReportCountries == {cs \in Seqs(CountryCodes, MaxCountries) : Len(cs) >= 1}

ReportThresholds == {1}

ReportArgs ==
    [countries : ReportCountries, threshold : ReportThresholds, cpu_span : {2},
     publish : BOOLEAN]

ReportMedianTables == {MedianRows(CountryCodes, 6), MedianRows({"US"}, 6)}

\* What the warehouse holds for one country: the rows the timing query
\* returns and the benchmark join.  Row 3 repeats the page-view token of
\* row 2.
TimingRow1 == NavRow("ip1", 20, 40, "cellular", 1, <<100>>, "stable")
TimingRow2 == NavRow("ip3", 10, 30, "cellular", 2, NaN, "stable")
TimingRow3 == NavRow("ip3", 13, 35, "wifi", 2, <<300>>, Null)

World(rows, join) == [rows |-> rows, join |-> join]

ReportWorlds ==
    {World(<< >>, << >>),
     World(<<TimingRow1, TimingRow2>>, <<JoinRow("ip1", 1, 3), JoinRow("ip3", 2, 3)>>),
     World(<<TimingRow1, TimingRow3>>, <<JoinRow("ip1", 1, 3), JoinRow("ip3", 2, 3)>>),
     World(<<TimingRow2, TimingRow3>>, <<JoinRow("ip3", 2, 3)>>),
     World(<<TimingRow3, TimingRow1>>, <<JoinRow("ip1", 1, 3)>>)}

\* ------------------------------------------------------------- actions
Country == args.countries[ci]

Network == networks[ni]

Init ==
    /\ pc = "start"
    /\ args \in ReportArgs
    /\ cellular_medians = {}
    /\ wifi_medians = {}
    /\ ci = 1
    /\ ni = 1
    /\ navtiming_dataset = << >>
    /\ cpu_join = << >>
    /\ call = NoCall
    /\ ranking = << >>
    /\ wi = 1
    /\ file = PreviousReport
    /\ latest = PreviousLatest
    /\ queries = << >>
    /\ blocks = << >>

\* with open(filepath, 'w') as f: f.write(tsv_header)
OpenReport ==
    /\ pc = "start"
    /\ file' = <<tsv_header>>
    /\ pc' = "medians"
    /\ UNCHANGED <<args, cellular_medians, wifi_medians, ci, ni, navtiming_dataset,
                   cpu_join, call, ranking, wi, latest, queries, blocks>>

\* fetch_cpu_benchmark_medians: two queries, each GROUP BY country.
FetchMedians ==
    /\ pc = "medians"
    /\ \E cm \in ReportMedianTables, wm \in ReportMedianTables :
          /\ cellular_medians' = cm
          /\ wifi_medians' = wm
    /\ queries' = queries \o <<[kind |-> "medians", network |-> "cellular"],
                              [kind |-> "medians", network |-> "wifi"]>>
    /\ pc' = "country"
    /\ UNCHANGED <<args, ci, ni, navtiming_dataset, cpu_join, call, ranking, wi,
                   file, latest, blocks>>

\* for country in countries: fetch_navigationtiming_data(country, ...)
FetchNavtiming ==
    /\ pc = "country"
    /\ ci <= Len(args.countries)
    /\ \E w \in ReportWorlds :
          /\ navtiming_dataset' = process_navtiming(w.rows)
          /\ cpu_join' = w.join
    /\ queries' = Append(queries, [kind |-> "navtiming", country |-> Country])
    /\ ni' = 1
    /\ pc' = "rank"
    /\ UNCHANGED <<args, cellular_medians, wifi_medians, ci, call, ranking, wi,
                   file, latest, blocks>>

\* Faulty variant: a country without a median gets the median 0.
medians_for_country_or_zero(network, country) ==
    LET table == IF network = "cellular" THEN cellular_medians ELSE wifi_medians
        rows == {r \in table : r.country = country}
    IN  IF rows = {} THEN {[country |-> country, score |-> 0]} ELSE rows

\* The rows of the medians table generate_ranking selects for the country.
medians_for_country(network, country) ==
    IF network = "cellular"
    THEN {r \in cellular_medians : r.country = country}
    ELSE {r \in wifi_medians : r.country = country}

\* Series.item(): the value when there is exactly one, an error otherwise.
HasItem(rows) == Cardinality(rows) = 1
Item(rows) == (CHOOSE r \in rows : TRUE).score

\* Faulty variant: every row is labelled as the first network.
ReportRowOneLabel(country, network, ranking_tuple_) ==
    [kind |-> "row",
     country_name |-> country_names[country],
     country |-> country,
     label |-> "Mobile",
     tuple |-> ranking_tuple_]

\* The report row written for one ranking tuple.
ReportRow(country, network, ranking_tuple_) ==
    [kind |-> "row",
     country_name |-> country_names[country],
     country |-> country,
     label |-> IF network = "cellular" THEN "Mobile" ELSE "Desktop",
     tuple |-> ranking_tuple_]

\* generate_ranking(navtiming_dataset, ..., country, network, ...) and the
\* country_names lookup that follows its return.
GenerateRanking ==
    /\ pc = "rank"
    /\ LET rows == medians_for_country(Network, Country)
       IN  IF ~HasItem(rows)
           THEN /\ pc' = "aborted"
                /\ call' = [NoCall EXCEPT !.outcome = "missing_median",
                                          !.country = Country, !.network = Network]
                /\ UNCHANGED <<ranking, wi, queries, blocks>>
           ELSE LET mediancpu == Item(rows)
                    mincpu == MinCpu(mediancpu, args.cpu_span)
                    maxcpu == MaxCpu(mediancpu, args.cpu_span)
                    cpu == cpu_dataset_of(cpu_join, mincpu, maxcpu)
                    filtered == navtiming_with_benchmark(navtiming_dataset, cpu)
                    kept == aggregated_rows(navtiming_dataset, filtered, Network)
                IN  /\ \E order \in sorted_orders(kept) :
                          ranking' = final_ranking(order, kept, cpu, args.threshold)
                    /\ call' = [outcome |-> "returned", country |-> Country,
                                network |-> Network, mincpu |-> mincpu, maxcpu |-> maxcpu,
                                cpu_dataset |-> cpu_query(cpu_join, mincpu, maxcpu),
                                cpubenchmark_dataset |-> cpu,
                                navtiming_dataset_filtered |-> filtered,
                                whitelisted_asns |->
                                    get_asns_by_type(navtiming_dataset, Network),
                                navtiming_dataset |-> kept]
                    /\ queries' = Append(queries,
                          [kind |-> "cpubenchmark", country |-> Country, ci |-> ci,
                           network |-> Network,
                           mincpu |-> IntTrunc2(mincpu), maxcpu |-> IntTrunc2(maxcpu)])
                    /\ blocks' = Append(blocks,
                          [ci |-> ci, network |-> Network, ranking |-> ranking'])
                    /\ wi' = 1
                    /\ pc' = IF Country \in DOMAIN country_names THEN "write" ELSE "aborted"
    /\ UNCHANGED <<args, cellular_medians, wifi_medians, ci, ni, navtiming_dataset,
                   cpu_join, file, latest>>

\* Faulty variant: latest.tsv is refreshed with every row written.
WriteRowPublishing ==
    /\ pc = "write"
    /\ wi <= Len(ranking)
    /\ file' = Append(file, ReportRow(Country, Network, ranking[wi]))
    /\ latest' = IF args.publish THEN file' ELSE latest
    /\ wi' = wi + 1
    /\ UNCHANGED <<pc, args, cellular_medians, wifi_medians, ci, ni, navtiming_dataset,
                   cpu_join, call, ranking, queries, blocks>>

\* for ranking_tuple in ranking: f.write(...)
WriteRow ==
    /\ pc = "write"
    /\ wi <= Len(ranking)
    /\ file' = Append(file, ReportRow(Country, Network, ranking[wi]))
    /\ wi' = wi + 1
    /\ UNCHANGED <<pc, args, cellular_medians, wifi_medians, ci, ni, navtiming_dataset,
                   cpu_join, call, ranking, latest, queries, blocks>>

\* End of the loop over the ranking: next network, or next country.
EndBlock ==
    /\ pc = "write"
    /\ wi > Len(ranking)
    /\ IF ni < Len(networks)
       THEN /\ ni' = ni + 1
            /\ pc' = "rank"
            /\ ci' = ci
       ELSE /\ ci' = ci + 1
            /\ ni' = ni
            /\ pc' = "country"
    /\ UNCHANGED <<args, cellular_medians, wifi_medians, navtiming_dataset,
                   cpu_join, call, ranking, wi, file, latest, queries, blocks>>

\* End of the loop over the countries: the with block closes the file.
CloseReport ==
    /\ pc = "country"
    /\ ci > Len(args.countries)
    /\ pc' = "closed"
    /\ UNCHANGED <<args, cellular_medians, wifi_medians, ci, ni, navtiming_dataset,
                   cpu_join, call, ranking, wi, file, latest, queries, blocks>>

\* if self.args.publish: copyfile(filepath, latest_path)
Publish ==
    /\ pc = "closed"
    /\ latest' = IF args.publish THEN file ELSE latest
    /\ pc' = "done"
    /\ UNCHANGED <<args, cellular_medians, wifi_medians, ci, ni, navtiming_dataset,
                   cpu_join, call, ranking, wi, file, queries, blocks>>

\* copyfile raising part-way: latest.tsv holds a truncated copy.
PublishFails ==
    /\ pc = "closed"
    /\ args.publish
    /\ \E n \in 0..(Len(file) - 1) : latest' = SubSeq(file, 1, n)
    /\ pc' = "aborted"
    /\ UNCHANGED <<args, cellular_medians, wifi_medians, ci, ni, navtiming_dataset,
                   cpu_join, call, ranking, wi, file, queries, blocks>>

\* An exception out of open(), a query (fetch_sql) or f.write(): the run ends,
\* the with block closes the file.
IOFailure ==
    /\ pc \in {"start", "medians", "country", "rank", "write"}
    /\ pc = "country" => ci <= Len(args.countries)
    /\ pc = "rank" => HasItem(medians_for_country(Network, Country))
    /\ pc = "write" => wi <= Len(ranking)
    /\ pc' = "aborted"
    /\ UNCHANGED <<args, cellular_medians, wifi_medians, ci, ni, navtiming_dataset,
                   cpu_join, call, ranking, wi, file, latest, queries, blocks>>

Next ==
    \/ OpenReport
    \/ FetchMedians
    \/ FetchNavtiming
    \/ GenerateRanking
    \/ WriteRow
    \/ EndBlock
    \/ CloseReport
    \/ Publish
    \/ PublishFails
    \/ IOFailure

Spec == Init /\ [][Next]_vars

\* ------------------------------------------------------------- ranking cases
\* A timing row without its page-view token, and the datasets of up to n
\* such rows, the i-th with token i.
Shape(ip, ttfb, type, transfersize, mobilemode) ==
    [ip |-> ip, ttfb |-> ttfb, type |-> type, transfersize |-> transfersize,
     mobilemode |-> mobilemode]

Tokened(shapes, n) ==
    UNION {{[i \in 1..k |-> NavRow(f[i].ip, f[i].ttfb, 30, f[i].type, i,
                                   f[i].transfersize, f[i].mobilemode)] :
               f \in [1..k -> shapes]} : k \in 0..n}

\* The benchmark join for the timing rows whose token is in T, all with a
\* score inside the band of median 3, span 2.
JoinFor(raw, T) ==
    LET sel == SelectSeq(raw, LAMBDA r : r.pageviewtoken \in T)
    IN  [i \in 1..Len(sel) |-> JoinRow(sel[i].ip, sel[i].pageviewtoken, 3)]

\* generate_report about to call generate_ranking for the first network of
\* its only country "US".
RankingStart(raw, join, median, span, threshold) ==
    /\ pc = "rank"
    /\ args = [countries |-> <<"US">>, threshold |-> threshold,
               cpu_span |-> span, publish |-> FALSE]
    /\ cellular_medians = MedianRows({"US"}, median)
    /\ wifi_medians = MedianRows({"US"}, median)
    /\ ci = 1
    /\ ni = 1
    /\ navtiming_dataset = process_navtiming(raw)
    /\ cpu_join = join
    /\ call = NoCall
    /\ ranking = << >>
    /\ wi = 1
    /\ file = <<tsv_header>>
    /\ latest = PreviousLatest
    /\ queries = <<[kind |-> "medians", network |-> "cellular"],
                   [kind |-> "medians", network |-> "wifi"],
                   [kind |-> "navtiming", country |-> "US"]>>
    /\ blocks = << >>

\* Cases over a set of timing shapes: any subset of the rows has a benchmark.
StartOver(shapes, n, thresholds) ==
    \E raw \in Tokened(shapes, n) :
        \E T \in SUBSET (1..Len(raw)), t \in thresholds :
            RankingStart(raw, JoinFor(raw, T), 6, 2, t)

\* Cases over a set of timing shapes: every row has a benchmark.
StartBenchmarked(shapes, n, threshold) ==
    \E raw \in Tokened(shapes, n) :
        RankingStart(raw, JoinFor(raw, 1..Len(raw)), 6, 2, threshold)

\* Band cases: scores around the band, whole and half medians, even and odd
\* spans, repeated tokens in the join.
BandJoinRows == {JoinRow("ip1", t, s) : t \in 1..2, s \in 1..MaxScore}

BandStart ==
    \E join \in Seqs(BandJoinRows, MaxBandRows), m \in {6, 7}, sp \in {2, 3} :
        RankingStart(<<NavRow("ip1", 10, 30, "cellular", 1, <<100>>, "stable")>>,
                     join, m, sp, 1)

\* Whitelist cases: connectivity types, two ASNs of one organization and an
\* unresolvable address, on the mobile and on the desktop site.
WhitelistShapes ==
    {Shape(ip, 10, type, <<100>>, mode) :
        ip \in {"ip1", "ip2", "ipX"}, type \in {"cellular", "wifi", Null},
        mode \in {"stable", Null}}

\* Site mode cases: every mobile-site mode on one ASN.
ModeShapes ==
    {Shape("ip1", 10, type, <<100>>, mode) :
        type \in {"cellular", "wifi"}, mode \in {"stable", "alpha", "beta", Null}}

\* Ordering cases: three organizations, medians on a half, thresholds.
OrderShapes ==
    {Shape(ip, ttfb, "cellular", <<100>>, "stable") :
        ip \in {"ip1", "ip3", "ipX"}, ttfb \in {10, 13}}

\* Transfer size cases: rows with and without a transfer size.
TransferShapes ==
    {Shape(ip, 10, "cellular", ts, "stable") :
        ip \in {"ip1", "ip3"}, ts \in {NaN, <<100>>, <<301>>}}

InitRanking ==
    \/ BandStart
    \/ StartBenchmarked(WhitelistShapes, MaxFilterRows, 1)
    \/ StartBenchmarked(ModeShapes, MaxFilterRows, 1)
    \/ StartOver(OrderShapes, MaxOrderRows, {1, 2})
    \/ StartBenchmarked(TransferShapes, MaxTransferRows, 1)

NextRanking ==
    \/ GenerateRanking
    \/ WriteRow
    \/ EndBlock

SpecRanking == InitRanking /\ [][NextRanking]_vars

\* ------------------------------------------------------------- claims
\* generate_ranking has just returned to generate_report: `call` holds its
\* frame, `ranking` its result, and navtiming_dataset and cpu_join are the
\* inputs it was given.
AfterCall == call.outcome = "returned" /\ pc = "write"

Aggregated == call.navtiming_dataset

\* Page-view tokens of the deduplicated benchmark records of an organization.
BenchmarkTokens(aso) ==
    {call.cpubenchmark_dataset[i].pageviewtoken :
        i \in {j \in 1..Len(call.cpubenchmark_dataset) :
                  call.cpubenchmark_dataset[j].aso = aso}}

Emitted(aso) == \E i \in 1..Len(ranking) : ranking[i].aso = aso

\* A score strictly inside the band median - span/2 .. median + span/2.
InBand(score) == 2 * score > call.mincpu /\ 2 * score < call.maxcpu

\* Page-view tokens of the warehouse's benchmark records of an organization
\* whose score is strictly inside the band.
InBandTokens(aso) ==
    {r.pageviewtoken :
        r \in {x \in Range(cpu_join) : InBand(x.score) /\ add_isp_row(x).aso = aso}}

\* C1: every emitted entry has sample size >= threshold, the sample size
\* being the number of deduplicated retrieved benchmark records of the
\* entry's organization; an organization below the threshold is not
\* emitted.  Both also hold counting the records strictly inside the band.
C1_SampleSizeAtLeastThreshold ==
    AfterCall =>
        /\ \A i \in 1..Len(ranking) :
              /\ ranking[i].samples >= args.threshold
              /\ ranking[i].samples = Cardinality(BenchmarkTokens(ranking[i].aso))
              /\ Cardinality(InBandTokens(ranking[i].aso)) >= args.threshold
        /\ \A i \in 1..Len(Aggregated) :
              ( \/ Cardinality(BenchmarkTokens(Aggregated[i].aso)) < args.threshold
                \/ Cardinality(InBandTokens(Aggregated[i].aso)) < args.threshold )
                  => ~Emitted(Aggregated[i].aso)

\* An organization one record short of the threshold is left out although
\* each of its rows has a lower TTFB than every row of the others, one of
\* which is emitted.
C1_Witness ==
    /\ AfterCall
    /\ Len(ranking) >= 1
    /\ \E k \in 1..Len(Aggregated) :
          LET aso == Aggregated[k].aso
          IN  /\ Cardinality(BenchmarkTokens(aso)) = args.threshold - 1
              /\ ~Emitted(aso)
              /\ \A i, j \in 1..Len(Aggregated) :
                    (Aggregated[i].aso = aso /\ Aggregated[j].aso # aso)
                        => Aggregated[i].ttfb < Aggregated[j].ttfb

\* C2: every timing row aggregated into an emitted entry has a retrieved
\* (in-band) benchmark record with the same page-view token.
C2_OnlyCpuNormalizedRowsAggregated ==
    AfterCall =>
        \A k \in 1..Len(Aggregated) :
            Emitted(Aggregated[k].aso) =>
                \E j \in 1..Len(call.cpubenchmark_dataset) :
                    call.cpubenchmark_dataset[j].pageviewtoken = Aggregated[k].pageviewtoken

\* C3: the whitelist never holds ASN 0, no row with ASN 0 passes the
\* whitelist filter, and no entry is emitted for the organization "".
C3_SentinelNeverWhitelisted ==
    AfterCall =>
        /\ 0 \notin call.whitelisted_asns
        /\ \A k \in 1..Len(Aggregated) : Aggregated[k].asn # 0
        /\ ~Emitted("")

\* C4: the TTFB values of one returned ranking are non-decreasing.
C4_TtfbNonDecreasing ==
    AfterCall =>
        \A i, j \in 1..Len(ranking) : i < j => ranking[i].ttfb <= ranking[j].ttfb

\* Two organizations are emitted, "B" before "A" with a strictly lower TTFB,
\* and a third one is dropped by the threshold.
C4_Witness ==
    /\ AfterCall
    /\ Len(ranking) = 2
    /\ ranking[1].aso = "B"
    /\ ranking[2].aso = "A"
    /\ ranking[1].ttfb < ranking[2].ttfb
    /\ \E k \in 1..Len(Aggregated) : ~Emitted(Aggregated[k].aso)

\* The rows of a medians table for a country, read from the table itself.
MedianRowsIn(network, country) ==
    {r \in (IF network = "cellular" THEN cellular_medians ELSE wifi_medians) :
        r.country = country}

\* C5: without a median for the (country, network) generate_ranking ends the
\* run: no benchmark query is issued for the pair, no ranking is returned
\* for it, and the band of every benchmark query issued comes from the one
\* median of its pair.
C5_MissingMedianIsFatal ==
    /\ call.outcome = "missing_median" =>
          /\ pc = "aborted"
          /\ MedianRowsIn(call.network, call.country) = {}
    /\ pc = "write" => Cardinality(MedianRowsIn(Network, Country)) = 1
    /\ \A k \in 1..Len(blocks) :
          Cardinality(MedianRowsIn(blocks[k].network, args.countries[blocks[k].ci])) = 1
    /\ \A k \in 1..Len(queries) :
          queries[k].kind = "cpubenchmark" =>
              LET rows == MedianRowsIn(queries[k].network, queries[k].country)
              IN  /\ Cardinality(rows) = 1
                  /\ \A r \in rows :
                        /\ queries[k].mincpu = IntTrunc2(r.score - args.cpu_span)
                        /\ queries[k].maxcpu = IntTrunc2(r.score + args.cpu_span)

\* The run ended on a missing median after an earlier block had been ranked
\* and written; the last benchmark query belongs to that earlier block.
C5_Witness ==
    /\ call.outcome = "missing_median"
    /\ pc = "aborted"
    /\ Len(blocks) >= 1
    /\ Len(file) >= 2
    /\ Len(queries) = 3 + Len(blocks)

\* C6: the benchmark records retrieved are exactly those of the join whose
\* score is strictly inside the band.
C6_RetrievedExactlyTheOpenBand ==
    AfterCall =>
        Range(call.cpu_dataset) = {r \in Range(cpu_join) : InBand(r.score)}

\* Transfer sizes present among the aggregated rows of an organization.
TransferSizes(aso) ==
    Present(Column(SelectSeq(Aggregated, LAMBDA r : r.aso = aso), "transfersize"))

\* The k-th smallest of a list of numbers, by counting.
KthSmallest(vals, k) ==
    CHOOSE v \in Range(vals) :
        /\ Cardinality({i \in 1..Len(vals) : vals[i] < v}) < k
        /\ Cardinality({i \in 1..Len(vals) : vals[i] <= v}) >= k

\* Twice the median of a non-empty list: the sum of its two middle values.
TwiceMedian(vals) ==
    KthSmallest(vals, (Len(vals) + 1) \div 2) + KthSmallest(vals, Len(vals) \div 2 + 1)

\* C7, as stated: the transfer size of an entry is the median of the transfer
\* sizes present among the organization's aggregated rows, and 0 when there
\* is none.
C7_TransferSizeIsTheMedian ==
    AfterCall =>
        \A i \in 1..Len(ranking) :
            LET vals == TransferSizes(ranking[i].aso)
            IN  IF vals = << >> THEN ranking[i].transfersize = 0
                ELSE 2 * ranking[i].transfersize = TwiceMedian(vals)

\* C7, amended: the transfer size of an entry is a whole number, the median
\* of the transfer sizes present truncated to an integer, and 0 when there
\* is none.
C7_TransferSizeIsTheTruncatedMedian ==
    AfterCall =>
        \A i \in 1..Len(ranking) :
            LET vals == TransferSizes(ranking[i].aso)
            IN  /\ ranking[i].transfersize \in Nat
                /\ IF vals = << >> THEN ranking[i].transfersize = 0
                   ELSE ranking[i].transfersize = TwiceMedian(vals) \div 2

\* One entry has no transfer size among its rows and reports 0; another has
\* rows with and without one and reports the median of those present.
C7_Witness ==
    /\ AfterCall
    /\ \E i, j \in 1..Len(ranking) :
          /\ TransferSizes(ranking[i].aso) = << >>
          /\ ranking[i].transfersize = 0
          /\ TransferSizes(ranking[j].aso) # << >>
          /\ ranking[j].transfersize > 0
          /\ \E k \in 1..Len(Aggregated) :
                /\ Aggregated[k].aso = ranking[j].aso
                /\ Aggregated[k].transfersize = NaN

\* The rows generate_report writes for one returned block.
BlockRows(b) ==
    LET code == args.countries[b.ci]
    IN  IF code \in DOMAIN country_names
        THEN [i \in 1..Len(b.ranking) |->
                 [kind |-> "row", country_name |-> country_names[code],
                  country |-> code,
                  label |-> IF b.network = "cellular" THEN "Mobile" ELSE "Desktop",
                  tuple |-> b.ranking[i]]]
        ELSE << >>

RECURSIVE ExpectedRows(_)
ExpectedRows(bs) ==
    IF bs = << >> THEN << >>
    ELSE ExpectedRows(SubSeq(bs, 1, Len(bs) - 1)) \o BlockRows(bs[Len(bs)])

IsPrefix(s, t) == Len(s) <= Len(t) /\ s = SubSeq(t, 1, Len(s))

HeaderOnce ==
    /\ Len(file) >= 1
    /\ file[1] = tsv_header
    /\ \A i \in 2..Len(file) : file[i].kind = "row"

\* The rows written are those of the blocks returned so far, in order; all
\* of them once a block is finished.
RowsFollowBlocks ==
    /\ IsPrefix(Tail(file), ExpectedRows(blocks))
    /\ pc \in {"country", "rank", "closed", "done"} => Tail(file) = ExpectedRows(blocks)

\* C8, as stated: header first and once; the rows of a country are
\* contiguous; within a country every Mobile row precedes every Desktop row;
\* the rows of a block are the entries returned, in order.
C8_RowsGroupedByCountry ==
    file # PreviousReport =>
        /\ HeaderOnce
        /\ RowsFollowBlocks
        /\ \A i, j \in 2..Len(file) :
              (i < j /\ file[i].country = file[j].country) =>
                  /\ \A k \in i..j : file[k].country = file[i].country
                  /\ file[i].label = "Desktop" => file[j].label = "Desktop"

\* C8, amended: header first and once; the blocks follow the requested list
\* entry by entry (a code requested twice gets two groups of rows), each
\* entry's Mobile block before its Desktop block; the rows of a block are
\* the entries returned, in order.
C8_RowsGroupedByListEntry ==
    file # PreviousReport =>
        /\ HeaderOnce
        /\ RowsFollowBlocks
        /\ \A k \in 1..Len(blocks) :
              /\ blocks[k].ci = (k + 1) \div 2
              /\ blocks[k].network = IF k % 2 = 1 THEN "cellular" ELSE "wifi"

\* A finished report for two countries whose first country has a Desktop row
\* and whose second has a Mobile row.
C8_Witness ==
    /\ pc = "done"
    /\ Len(args.countries) = 2
    /\ args.countries[1] # args.countries[2]
    /\ \E i, j \in 2..Len(file) :
          /\ i < j
          /\ file[i].country = args.countries[1]
          /\ file[i].label = "Desktop"
          /\ file[j].country = args.countries[2]
          /\ file[j].label = "Mobile"

SeenWith(asn, type) ==
    \E j \in 1..Len(navtiming_dataset) :
        navtiming_dataset[j].asn = asn /\ navtiming_dataset[j].type = type

ModeAllowed(mobilemode, network) ==
    IF network = "cellular" THEN mobilemode = "stable"
    ELSE mobilemode # "stable" /\ mobilemode # "alpha" /\ mobilemode # "beta"

\* C9: every aggregated row has an ASN seen with the requested connectivity
\* type in the unfiltered dataset and an allowed mobile-site mode; a row
\* without connectivity type is kept when it passes both; an ASN seen with
\* both types is in both whitelists.
C9_RowsPassBothFilters ==
    AfterCall =>
        /\ \A k \in 1..Len(Aggregated) :
              /\ SeenWith(Aggregated[k].asn, call.network)
              /\ ModeAllowed(Aggregated[k].mobilemode, call.network)
        /\ \A j \in 1..Len(navtiming_dataset) :
              ( /\ navtiming_dataset[j].type = Null
                /\ SeenWith(navtiming_dataset[j].asn, call.network)
                /\ ModeAllowed(navtiming_dataset[j].mobilemode, call.network) )
                  => navtiming_dataset[j] \in Range(Aggregated)
        /\ \A j \in 1..Len(navtiming_dataset) :
              ( /\ SeenWith(navtiming_dataset[j].asn, "cellular")
                /\ SeenWith(navtiming_dataset[j].asn, "wifi") )
                  => /\ navtiming_dataset[j].asn
                            \in get_asns_by_type(navtiming_dataset, "cellular")
                     /\ navtiming_dataset[j].asn
                            \in get_asns_by_type(navtiming_dataset, "wifi")

\* A wifi ranking over an ASN seen with both types, aggregating a row of that
\* ASN whose connectivity type is not wifi, while another row is filtered out.
C9_Witness ==
    /\ AfterCall
    /\ call.network = "wifi"
    /\ Len(Aggregated) < Len(navtiming_dataset)
    /\ \E k \in 1..Len(Aggregated) :
          /\ Aggregated[k].type # "wifi"
          /\ SeenWith(Aggregated[k].asn, "cellular")
          /\ SeenWith(Aggregated[k].asn, "wifi")

ReportComplete ==
    /\ Len(blocks) = 2 * Len(args.countries)
    /\ HeaderOnce
    /\ Tail(file) = ExpectedRows(blocks)

\* C10: latest.tsv differs from what the run found only when publishing, after
\* every block of every requested country was written and the file closed;
\* a finished publishing run leaves the report in it.
C10_LatestOnlyAfterCompleteReport ==
    /\ latest # PreviousLatest =>
          /\ args.publish
          /\ pc \in {"done", "aborted"}
          /\ ReportComplete
    /\ (pc = "done" /\ args.publish) => latest = file

\* A publishing run that aborted after writing rows: the period-named file
\* holds the header and those rows, latest.tsv is as it was.
C10_Witness ==
    /\ args.publish
    /\ pc = "aborted"
    /\ Len(blocks) < 2 * Len(args.countries)
    /\ Len(file) >= 2
    /\ file[1] = tsv_header
    /\ latest = PreviousLatest

====
